---------------------------- MODULE Spec2Model ----------------------------
(***************************************************************************)
(* The Momentum State Engine of src/App.tsx as a state machine.            *)
(*                                                                         *)
(* Modelling conventions                                                   *)
(*  - Date.now() is the variable `now`, in milliseconds.  The clock is     *)
(*    monotone and every local calendar day has 86400000 ms (a zone        *)
(*    without daylight-saving transitions).  A Date is its calendar day    *)
(*    and its time of day; a day string is the number of the day.          *)
(*  - A text is a sequence of tokens; the token " " is whitespace.         *)
(*  - An optional value (string | null) is <<>> (null) or <<v>>.           *)
(*  - A handler, the state updaters it queues, the render that follows and *)
(*    the effects of that render (the localStorage writes) are one action. *)
(*  - Updater functions run once per call (production React).              *)
(*  - A JavaScript object is a record of its keys; a backup document is the *)
(*    record JSON.parse returns, and a file is the text that carries it.    *)
(*  - The completion of the 5-minute countdown is one event; the countdown   *)
(*    itself, second by second, is TimerTick and TimerElapsed.              *)
(*  - checkReset writes the marker in its callback and the habits in the    *)
(*    effect of a later render: CheckResetCall and RenderReset are the two  *)
(*    steps, CheckReset both together.  A page that is closed (Close) can   *)
(*    be closed between the two; Startup opens it again.                    *)
(***************************************************************************)
EXTENDS Integers, Sequences, FiniteSets

(* ------------------------------ bounds -------------------------------- *)

\* Last calendar day the clock reaches.
MaxDay == 2
\* Last millisecond of a day the clock reaches by single-millisecond ticks.
MaxMs == 1
\* Cap of every analytics counter and of points.
MaxCount == 3
\* Longest Activity Log.
MaxLog == 2
\* Most successful appends to the Activity Log in one run.
MaxAppends == 3
\* Longest mini-goal list and longest if-then plan list.
MaxPlans == 2
\* Most entries, mini-goals and if-then plans held together.
MaxItems == 3
\* Most times the site data is cleared.
MaxClears == 1
\* Most entries of one calendar day in the heatmap's input space.
MaxHeat == 7
\* Most entries of the day before it in that input space.
MaxHeatBefore == 2
\* Most seconds of countdown thrown away by resets and reloads in one run.
MaxWaste == 2
\* Last calendar day of the streak function's input space.
MaxStreakDay == 5

(* ------------------------- program constants -------------------------- *)

\* calculateStreak: new Date(Date.now() - 86400000)
MsPerDay == 86400000
\* velocityData: for (let i = 6; i >= 0; i--)
VelocityWindow == 7
\* getLast30Days: for (let i = 29; i >= 0; i--)
HeatmapWindow == 30
\* const TIMER_DURATION = 300; // 5 minutes in seconds
TIMER_DURATION == 300

None == <<>>
Some(v) == <<v>>

\* 'Completed 5-Minute Action Burst'
BURST_TEXT == <<"Completed 5-Minute Action Burst">>

IF_THEN_PRESETS ==
  << [trigger |-> <<"I get distracted by my phone">>,
      action  |-> <<"I will set a timer of 20 minutes to do deep-work">>],
     [trigger |-> <<"I want to spend something online">>,
      action  |-> <<"I will wait 30 minutes and see if I still need it">>],
     [trigger |-> <<"I feel like procrastinating">>,
      action  |-> <<"I will do 10 pushups and start a 5-minute burst">>],
     [trigger |-> <<"I lose focus on my task">>,
      action  |-> <<"I will take 3 deep breaths and write down my next tiny step">>] >>

\* The theme catalog: name, color, unlockPoints.
THEMES ==
  << [name |-> "Matrix Green",  color |-> "#00FF41", unlockPoints |-> 0],
     [name |-> "Amber Alert",   color |-> "#FFB000", unlockPoints |-> 50],
     [name |-> "Plasma Blue",   color |-> "#00D1FF", unlockPoints |-> 100],
     [name |-> "Crimson Surge", color |-> "#FF3131", unlockPoints |-> 250],
     [name |-> "Void Purple",   color |-> "#BC13FE", unlockPoints |-> 500] >>

\* The seeded habits of a first run.
DefaultHabits ==
  << [id |-> <<"1">>, label |-> "Wake up 30m earlier", completed |-> FALSE],
     [id |-> <<"2">>, label |-> "Read 10 pages",       completed |-> FALSE],
     [id |-> <<"3">>, label |-> "Meditate 5 minutes",  completed |-> FALSE],
     [id |-> <<"4">>, label |-> "Gratitude journal",   completed |-> FALSE] >>

DefaultAnalytics ==
  [timerSessions |-> 0, habitsCompleted |-> 0, goalsCreated |-> 0, ifThenCreated |-> 0]

\* { wish: '', outcome: '', obstacle: '', plan: '' }
DefaultWoop == [wish |-> <<>>, outcome |-> <<>>, obstacle |-> <<>>, plan |-> <<>>]

(* ------------------------------ inputs -------------------------------- *)

\* Texts a user types: empty, blank, and one with blanks around its text.
Texts == { <<>>, <<" ">>, <<" ", "a", " ">> }
\* Deadlines a user types (free-form, never trimmed).
Deadlines == { <<"fri">> }
\* Trigger and action pairs a user types: one of the two blank, or neither.
PlanInputs ==
  { [trigger |-> <<" ">>, action |-> <<"a">>],
    [trigger |-> <<"a">>, action |-> <<>>],
    [trigger |-> <<" ", "a">>, action |-> <<"b", " ">>] }
\* Habit ids a user clicks, and one id that no habit has.
HabitIdInputs == { <<"1">>, <<"2">>, <<"9">> }
\* An id that no entry, goal or plan has (ids are decimal numerals).
MissingId == <<"x">>
\* The text of the items made to populate the lists.
ItemText == <<"a">>
\* Presets a user clicks.
PresetInputs == {1, 2}

(* ------------------------- pure helper functions ---------------------- *)

DigitChars == <<"0", "1", "2", "3", "4", "5", "6", "7", "8", "9">>

\* Number.prototype.toString() of a non-negative integer: its decimal digits.
RECURSIVE NumToString(_)
NumToString(n) ==
  IF n < 10 THEN <<DigitChars[n + 1]>>
  ELSE Append(NumToString(n \div 10), DigitChars[(n % 10) + 1])

DigitValue(c) == CHOOSE d \in 0..9 : DigitChars[d + 1] = c
IsDigit(c) == \E d \in 0..9 : DigitChars[d + 1] = c

\* parseInt(s, 10) of a string without sign or leading blanks: the value of
\* its longest prefix of digits, NaN (here -1) when that prefix is empty.
RECURSIVE ParseDigits(_, _, _)
ParseDigits(s, i, acc) ==
  IF i > Len(s) \/ ~IsDigit(s[i]) THEN acc
  ELSE ParseDigits(s, i + 1, acc * 10 + DigitValue(s[i]))
NaN == -1
parseInt(s) == IF Len(s) = 0 \/ ~IsDigit(s[1]) THEN NaN ELSE ParseDigits(s, 1, 0)

\* String.prototype.trim(): drops the leading and the trailing whitespace.
RECURSIVE TrimStart(_)
TrimStart(s) == IF Len(s) > 0 /\ s[1] = " " THEN TrimStart(Tail(s)) ELSE s
RECURSIVE TrimEnd(_)
TrimEnd(s) ==
  IF Len(s) > 0 /\ s[Len(s)] = " " THEN TrimEnd(SubSeq(s, 1, Len(s) - 1)) ELSE s
trim(s) == TrimEnd(TrimStart(s))

\* JSON.stringify / JSON.parse of plain data: a document that carries the value.
JSONstringify(v) == [json |-> v]
JSONparse(s) == s.json

\* new Date(t): the local calendar day of instant t and the time of that day.
NewDate(t) == [day |-> t \div MsPerDay, ms |-> t % MsPerDay]
\* d.toDateString(): the calendar day, without the time.
toDateString(d) == d.day
\* d.setDate(d.getDate() - i): the same time of day, i calendar days earlier.
SetDateBack(d, i) == [d EXCEPT !.day = @ - i]
\* d.toLocaleDateString([], { weekday: 'short' })
weekday(d) == d.day % 7
\* new Date(entry.timestamp).toDateString()
DayOf(e) == toDateString(NewDate(e.timestamp))

\* Variant for sensitivity analysis: a filter that drops the last item when no item has the id.
WithoutIdOrLast(s, id) ==
  IF \E i \in DOMAIN s : s[i].id = id
  THEN SelectSeq(s, LAMBDA e : e.id # id)
  ELSE SubSeq(s, 1, Len(s) - 1)

\* prev.filter(e => e.id !== id)
WithoutId(s, id) == SelectSeq(s, LAMBDA e : e.id # id)
HasId(s, id) == \E i \in DOMAIN s : s[i].id = id

Includes(s, x) == \E i \in DOMAIN s : s[i] = x

\* calculateStreak's while loop: counts the days in dates walking back from
\* currentDate, one setDate(getDate() - 1) at a time.
RECURSIVE StreakLoop(_, _, _)
StreakLoop(dates, currentDate, n) ==
  IF toDateString(currentDate) \in dates
  THEN StreakLoop(dates, SetDateBack(currentDate, 1), n + 1)
  ELSE n

\* Variant for sensitivity analysis: calculateStreak without the yesterday grace: a log lacking today scores 0.
StreakNoGrace(es, t) ==
  LET dates == { DayOf(es[i]) : i \in DOMAIN es }
  IN  IF toDateString(NewDate(t)) \notin dates THEN 0
      ELSE StreakLoop(dates, NewDate(t), 0)

\* calculateStreak(entries) evaluated when Date.now() = t.
calculateStreak(es, t) ==
  IF Len(es) = 0 THEN 0
  ELSE LET dates     == { DayOf(es[i]) : i \in DOMAIN es }
           today     == toDateString(NewDate(t))
           yesterday == toDateString(NewDate(t - MsPerDay))
       IN  IF today \notin dates /\ yesterday \notin dates THEN 0
           ELSE StreakLoop(dates,
                           IF today \in dates THEN NewDate(t) ELSE NewDate(t - MsPerDay),
                           0)

\* The activityMap memo: day -> number of entries of that day.
ActivityMapOf(es) ==
  [ d \in { DayOf(es[i]) : i \in DOMAIN es } |->
      Cardinality({ i \in DOMAIN es : DayOf(es[i]) = d }) ]

\* The velocityData memo computed when Date.now() = t: the last 7 days,
\* oldest first, each with its weekday and its count (0 when absent).
VelocityOf(am, t) ==
  [ k \in 1..VelocityWindow |->
      LET d == SetDateBack(NewDate(t), VelocityWindow - k)
      IN  [ name    |-> weekday(d),
            actions |-> IF toDateString(d) \in DOMAIN am
                        THEN am[toDateString(d)] ELSE 0 ] ]

\* getLast30Days() when Date.now() = t: 30 Date objects, oldest first.
getLast30Days(t) ==
  [ k \in 1..HeatmapWindow |-> SetDateBack(NewDate(t), HeatmapWindow - k) ]

\* activityMap[dateStr] || 0
CountOn(am, dateStr) == IF dateStr \in DOMAIN am THEN am[dateStr] ELSE 0

\* Variant for sensitivity analysis: the cell classes with the low tier ending at 1.
bgColorLowTo1(count) ==
  IF count > 0 /\ count <= 1 THEN "bg-engine-accent/30"
  ELSE IF count > 1 /\ count <= 5 THEN "bg-engine-accent/60"
  ELSE IF count > 5 THEN "bg-engine-accent"
  ELSE "bg-engine-border"

\* The class of a heatmap cell: let bgColor = 'bg-engine-border' and the
\* if / else if chain that follows.
bgColor(count) ==
  IF count > 0 /\ count <= 2 THEN "bg-engine-accent/30"
  ELSE IF count > 2 /\ count <= 5 THEN "bg-engine-accent/60"
  ELSE IF count > 5 THEN "bg-engine-accent"
  ELSE "bg-engine-border"

\* last30Days.map(...): the date, the count and the class of each cell.
HeatmapOf(days, am) ==
  [ k \in DOMAIN days |->
      LET dateStr == toDateString(days[k])
          count   == CountOn(am, dateStr)
      IN  [dateStr |-> dateStr, count |-> count, bgColor |-> bgColor(count)] ]

(* ------------------------------- state -------------------------------- *)

VARIABLES
  now,          \* Date.now()
  entries,      \* Activity Log, most recent first
  habits,       \* Habit Set
  miniGoals,    \* Mini-Goals
  ifThenPlans,  \* If-Then Plans
  points,       \* Points
  analytics,    \* Analytics counters
  habitHistory, \* day -> labels completed that day
  vision,       \* Vision text
  woop,         \* WOOP singleton
  activeTheme,  \* color of the active theme
  futureCostNotes, \* day -> note of that day
  exported,     \* the last backup file downloaded, or none
  timeLeft,     \* seconds left of the countdown
  isActive,     \* whether the countdown runs
  queuedReset,  \* whether checkReset's setHabits updater waits for its render
  running,      \* whether the component is mounted (no initializer threw)
  streak,       \* useMemo(() => calculateStreak(entries), [entries])
  velocityData, \* useMemo over activityMap
  last30Days,   \* useMemo(() => getLast30Days(), [])
  store,        \* localStorage: slot -> null or the stored string
  lastOp,       \* history: the handler that ran last
  resets,       \* history: day -> number of habit resets performed that day
  appended,     \* history: number of entries added to the Activity Log
  removed       \* history: number of deleteEntry calls whose id was present

prefVars  == <<vision, woop, activeTheme, futureCostNotes>>
repoVars  == <<entries, habits, miniGoals, ifThenPlans, points, analytics, habitHistory,
               prefVars>>
memoVars  == <<streak, velocityData, last30Days>>
histVars  == <<resets, appended, removed>>
sessionVars == <<timeLeft, isActive, queuedReset, running>>
vars == <<now, entries, habits, miniGoals, ifThenPlans, points, analytics,
          habitHistory, vision, woop, activeTheme, futureCostNotes, exported,
          timeLeft, isActive, queuedReset, running,
          streak, velocityData, last30Days, store, lastOp,
          resets, appended, removed>>

getTodayString == toDateString(NewDate(now))

\* The record of a handler run: its name, its inputs, whether it took its
\* main branch, and the number of items it cleared or removed.
Op(name, arg, ok, n) == [op |-> name, arg |-> arg, ok |-> ok, n |-> n]

(* ---------------------------- persistence ----------------------------- *)

\* saved ? JSON.parse(saved) : fallback
LoadJSON(slot, fallback) == IF slot = None THEN fallback ELSE JSONparse(slot[1])
\* Variant for sensitivity analysis: an initializer that ignores the saved points.
LoadPointsLost(slot) == 0

\* saved ? parseInt(saved, 10) : 0
LoadPoints(slot) == IF slot = None \/ slot[1] = <<>> THEN 0 ELSE parseInt(slot[1])

\* The persistence effects of the render after mount: every slot is written.
PersistAll(st, e, h, mg, it, p, an, hh) ==
  [ st EXCEPT !.entries      = Some(JSONstringify(e)),
              !.habits       = Some(JSONstringify(h)),
              !.miniGoals    = Some(JSONstringify(mg)),
              !.ifThen       = Some(JSONstringify(it)),
              !.points       = Some(NumToString(p)),
              !.analytics    = Some(JSONstringify(an)),
              !.habitHistory = Some(JSONstringify(hh)) ]

\* Variant for sensitivity analysis: the effects of vision, woop and the notes, without the theme effect.
PersistPrefsNoTheme(st, v, w, th, fc) ==
  [ st EXCEPT !.vision          = Some(v),
              !.woop            = Some(JSONstringify(w)),
              !.futureCostNotes = Some(JSONstringify(fc)) ]

\* The effects that write vision, woop, the theme and the future cost notes.
PersistPrefs(st, v, w, th, fc) ==
  [ st EXCEPT !.vision          = Some(v),
              !.woop            = Some(JSONstringify(w)),
              !.theme           = Some(th),
              !.futureCostNotes = Some(JSONstringify(fc)) ]

\* localStorage.getItem(key) || fallback, of a slot that holds a plain string.
LoadString(slot, empty, fallback) ==
  IF slot = None \/ slot[1] = empty THEN fallback ELSE slot[1]

EmptyStore ==
  [ entries |-> None, habits |-> None, miniGoals |-> None, ifThen |-> None,
    points |-> None, analytics |-> None, habitHistory |-> None, lastReset |-> None,
    vision |-> None, woop |-> None, theme |-> None, futureCostNotes |-> None ]

NumCompleted(h) == Cardinality({ i \in DOMAIN h : h[i].completed })

\* Variant for sensitivity analysis: AllPending with the completion flags left as they are.
KeepCompleted(h) == h

\* prev.map(h => ({ ...h, completed: false }))
AllPending(h) == [ i \in DOMAIN h |-> [ h[i] EXCEPT !.completed = FALSE ] ]

\* Variant for sensitivity analysis: ResetDue ignoring the marker: every check finds a reset due.
ResetDueBroken(st) == TRUE

\* The body of checkReset's if: whether the marker differs from today.
ResetDue(st) == st.lastReset # Some(getTodayString)

NoResets == [ d \in 0..MaxDay |-> 0 ]

\* The store after the first render of a session that found every slot empty.
FirstStore(e) ==
  PersistPrefs(PersistAll(EmptyStore, e, AllPending(DefaultHabits), <<>>, <<>>,
                          0, DefaultAnalytics, <<>>),
               <<>>, DefaultWoop, THEMES[1].color, <<>>)

(* The state after the first mount on an empty localStorage: the defaults,  *)
(* written to every slot, and checkReset's first run.                       *)
Init ==
  /\ now = 0
  /\ entries = <<>>
  /\ habits = AllPending(DefaultHabits)
  /\ miniGoals = <<>>
  /\ ifThenPlans = <<>>
  /\ points = 0
  /\ analytics = DefaultAnalytics
  /\ habitHistory = <<>>
  /\ vision = <<>>
  /\ woop = DefaultWoop
  /\ activeTheme = THEMES[1].color
  /\ futureCostNotes = <<>>
  /\ exported = None
  /\ timeLeft = TIMER_DURATION
  /\ isActive = FALSE
  /\ queuedReset = FALSE
  /\ running = TRUE
  /\ streak = calculateStreak(<<>>, 0)
  /\ velocityData = VelocityOf(ActivityMapOf(<<>>), 0)
  /\ last30Days = getLast30Days(0)
  /\ store = [ FirstStore(<<>>) EXCEPT !.lastReset = Some(toDateString(NewDate(0))) ]
  /\ lastOp = Op("mount", <<>>, TRUE, 0)
  /\ resets = [ NoResets EXCEPT ![0] = 1 ]
  /\ appended = 0
  /\ removed = 0

(* ------------------------------- clock -------------------------------- *)

\* One millisecond passes.
Tick ==
  /\ now % MsPerDay < MaxMs
  /\ now' = now + 1
  /\ lastOp' = Op("tick", <<>>, TRUE, 0)
  /\ UNCHANGED <<repoVars, memoVars, store, histVars, exported, sessionVars>>

\* Midnight passes: the clock reaches the start of the next calendar day.
NextDay ==
  /\ getTodayString < MaxDay
  /\ now' = (getTodayString + 1) * MsPerDay
  /\ lastOp' = Op("nextDay", <<>>, TRUE, 0)
  /\ UNCHANGED <<repoVars, memoVars, store, histVars, exported, sessionVars>>

(* --------------------------- daily rollover --------------------------- *)

\* Variant for sensitivity analysis: CheckReset without the write of the marker (line 440 dropped).
CheckResetNoMarker ==
  /\ IF ResetDue(store)
     THEN /\ habits' = AllPending(habits)
          /\ store' = [ store EXCEPT !.habits = Some(JSONstringify(habits')) ]
          /\ resets' = [ resets EXCEPT ![getTodayString] = @ + 1 ]
     ELSE UNCHANGED <<habits, store, resets>>
  /\ lastOp' = Op("checkReset", <<>>, ResetDue(store), NumCompleted(habits))
  /\ UNCHANGED <<prefVars, exported, sessionVars, now, entries, miniGoals, ifThenPlans, points, analytics,
                 habitHistory, memoVars, appended, removed>>

\* Variant for sensitivity analysis: a CheckReset that also sets every mini-goal to not completed.
CheckResetAndGoals ==
  /\ IF ResetDue(store)
     THEN /\ habits' = AllPending(habits)
          /\ miniGoals' = AllPending(miniGoals)
          /\ store' = [ store EXCEPT !.lastReset = Some(getTodayString),
                                     !.habits = Some(JSONstringify(habits')),
                                     !.miniGoals = Some(JSONstringify(miniGoals')) ]
          /\ resets' = [ resets EXCEPT ![getTodayString] = @ + 1 ]
     ELSE UNCHANGED <<habits, miniGoals, store, resets>>
  /\ lastOp' = Op("checkReset", <<>>, ResetDue(store), NumCompleted(habits))
  /\ UNCHANGED <<prefVars, exported, sessionVars, now, entries, ifThenPlans, points, analytics,
                 habitHistory, memoVars, appended, removed>>

\* checkReset, at mount and every 60000 ms.
CheckReset ==
  /\ IF ResetDue(store)
     THEN /\ habits' = AllPending(habits)
          /\ store' = [ store EXCEPT !.lastReset = Some(getTodayString),
                                     !.habits = Some(JSONstringify(habits')) ]
          /\ resets' = [ resets EXCEPT ![getTodayString] = @ + 1 ]
     ELSE UNCHANGED <<habits, store, resets>>
  /\ lastOp' = Op("checkReset", <<>>, ResetDue(store), NumCompleted(habits))
  /\ UNCHANGED <<prefVars, exported, sessionVars, now, entries, miniGoals, ifThenPlans, points, analytics,
                 habitHistory, memoVars, appended, removed>>

(* checkReset in the two steps the code takes: the callback queues the       *)
(* updater of setHabits and writes the marker at once (lines 439-440); the   *)
(* render that follows applies the updater and its effect writes the habits  *)
(* slot (lines 388-390).  CheckReset is the two steps taken together.        *)

\* The callback of the interval: checkReset up to its return.
CheckResetCall ==
  /\ running
  /\ ~queuedReset
  /\ IF ResetDue(store)
     THEN /\ queuedReset' = TRUE
          /\ store' = [ store EXCEPT !.lastReset = Some(getTodayString) ]
     ELSE UNCHANGED <<queuedReset, store>>
  /\ lastOp' = Op("checkResetCall", <<>>, ResetDue(store), NumCompleted(habits))
  /\ UNCHANGED <<now, repoVars, memoVars, histVars, exported, timeLeft, isActive, running>>

\* The render of the queued updater, and the habits effect of that render.
RenderReset ==
  /\ running
  /\ queuedReset
  /\ queuedReset' = FALSE
  /\ habits' = AllPending(habits)
  /\ store' = [ store EXCEPT !.habits = Some(JSONstringify(habits')) ]
  /\ resets' = [ resets EXCEPT ![getTodayString] = @ + 1 ]
  /\ lastOp' = Op("checkReset", <<>>, TRUE, NumCompleted(habits))
  /\ UNCHANGED <<prefVars, exported, now, entries, miniGoals, ifThenPlans, points, analytics,
                 habitHistory, memoVars, appended, removed, timeLeft, isActive, running>>

(* ------------------------------- habits ------------------------------- *)

\* newHabits.find(h => h.id === id): the first match, or none.
Find(s, id) ==
  IF HasId(s, id)
  THEN Some(s[CHOOSE i \in DOMAIN s : s[i].id = id /\ \A j \in 1..(i - 1) : s[j].id # id])
  ELSE None

\* prevH[today] || []
DayHistory(hh, d) == IF d \in DOMAIN hh THEN hh[d] ELSE <<>>

\* Variant for sensitivity analysis: LogToHistory without the includes() test.
LogToHistoryAlways(hh, today, label) ==
  [ d \in DOMAIN hh \cup {today} |->
      IF d = today THEN Append(DayHistory(hh, today), label) ELSE hh[d] ]

\* The setHabitHistory updater of toggleHabit.
LogToHistory(hh, today, label) ==
  IF ~Includes(DayHistory(hh, today), label)
  THEN [ d \in DOMAIN hh \cup {today} |->
           IF d = today THEN Append(DayHistory(hh, today), label) ELSE hh[d] ]
  ELSE hh

\* Variant for sensitivity analysis: Flip without the id comparison: every habit is flipped.
FlipAll(h, id) == [ i \in DOMAIN h |-> [ h[i] EXCEPT !.completed = ~@ ] ]

\* prev.map(h => h.id === id ? { ...h, completed: !h.completed } : h)
Flip(h, id) ==
  [ i \in DOMAIN h |->
      IF h[i].id = id THEN [ h[i] EXCEPT !.completed = ~@ ] ELSE h[i] ]

ToggleHabit(id) ==
  LET newHabits == Flip(habits, id)
      habit     == Find(newHabits, id)
      done      == habit # None /\ habit[1].completed
  IN  /\ done => analytics.habitsCompleted < MaxCount
      /\ habits' = newHabits
      /\ IF done
         THEN /\ analytics' = [ analytics EXCEPT !.habitsCompleted = @ + 1 ]
              /\ habitHistory' = LogToHistory(habitHistory, getTodayString, habit[1].label)
         ELSE UNCHANGED <<analytics, habitHistory>>
      /\ store' = [ store EXCEPT !.habits = Some(JSONstringify(habits')),
                                 !.analytics = Some(JSONstringify(analytics')),
                                 !.habitHistory = Some(JSONstringify(habitHistory')) ]
      /\ lastOp' = Op("toggleHabit", <<id>>, done, 0)
      /\ UNCHANGED <<prefVars, exported, sessionVars, now, entries, miniGoals, ifThenPlans, points,
                     memoVars, histVars>>

(* ------------------------------ restart ------------------------------- *)

(* The page is loaded again: every useState initializer reads its slot, the *)
(* memos are computed, the persistence effects write every slot and         *)
(* checkReset runs.                                                         *)
Mounted(st0) ==
  LET e  == LoadJSON(st0.entries, <<>>)
      h  == LoadJSON(st0.habits, DefaultHabits)
      mg == LoadJSON(st0.miniGoals, <<>>)
      it == LoadJSON(st0.ifThen, <<>>)
      p  == LoadPoints(st0.points)
      an == LoadJSON(st0.analytics, DefaultAnalytics)
      hh == LoadJSON(st0.habitHistory, <<>>)
      v  == LoadString(st0.vision, <<>>, <<>>)
      w  == LoadJSON(st0.woop, DefaultWoop)
      th == LoadString(st0.theme, "", THEMES[1].color)
      fc == LoadJSON(st0.futureCostNotes, <<>>)
      st == PersistPrefs(PersistAll(st0, e, h, mg, it, p, an, hh), v, w, th, fc)
  IN  /\ entries' = e
      /\ vision' = v
      /\ woop' = w
      /\ activeTheme' = th
      /\ futureCostNotes' = fc
      /\ miniGoals' = mg
      /\ ifThenPlans' = it
      /\ points' = p
      /\ analytics' = an
      /\ habitHistory' = hh
      /\ streak' = calculateStreak(e, now)
      /\ velocityData' = VelocityOf(ActivityMapOf(e), now)
      /\ last30Days' = getLast30Days(now)
      /\ IF ResetDue(st)
         THEN /\ habits' = AllPending(h)
              /\ store' = [ st EXCEPT !.lastReset = Some(getTodayString),
                                      !.habits = Some(JSONstringify(habits')) ]
              /\ resets' = [ resets EXCEPT ![getTodayString] = @ + 1 ]
         ELSE /\ habits' = h
              /\ store' = st
              /\ UNCHANGED resets
      /\ timeLeft' = TIMER_DURATION
      /\ isActive' = FALSE
      /\ queuedReset' = FALSE
      /\ running' = TRUE
      /\ UNCHANGED <<now, appended, removed, exported>>

\* The page is loaded again over the store as it is.
Restart ==
  /\ Mounted(store)
  /\ lastOp' = Op("mount", <<>>, ResetDue(store), NumCompleted(LoadJSON(store.habits, DefaultHabits)))

(* ---------------------------- activity log ---------------------------- *)

\* Variant for sensitivity analysis: IsBlank that rejects nothing.
IsBlankNever(text) == FALSE

\* !text.trim(): whether the submitted text is rejected.
IsBlank(text) == trim(text) = <<>>

\* Whether the bounds leave room for one more entry, mini-goal or plan.
Room == Len(entries) + Len(miniGoals) + Len(ifThenPlans) < MaxItems

\* The entry a creation at Date.now() = t makes: { id: Date.now().toString(), ... }
NewEntry(text, t) == [id |-> NumToString(t), text |-> text, timestamp |-> t]

\* setEntries(prev => [entry, ...prev])
Prepend(entry, prev) == <<entry>> \o prev

\* The render after setEntries: the streak and velocityData memos are computed
\* again (their dependency changed) and the entries slot is written.
EntriesRendered ==
  /\ streak' = calculateStreak(entries', now)
  /\ velocityData' = VelocityOf(ActivityMapOf(entries'), now)
  /\ UNCHANGED last30Days

\* addEntry with newEntry = text.
AddEntry(text) ==
  IF IsBlank(text)
  THEN /\ lastOp' = Op("addEntry", <<text>>, FALSE, 0)
       /\ UNCHANGED <<now, repoVars, memoVars, store, histVars, exported, sessionVars>>
  ELSE /\ Room
       /\ Len(entries) < MaxLog
       /\ appended < MaxAppends
       /\ entries' = Prepend(NewEntry(trim(text), now), entries)
       /\ EntriesRendered
       /\ store' = [ store EXCEPT !.entries = Some(JSONstringify(entries')) ]
       /\ appended' = appended + 1
       /\ lastOp' = Op("addEntry", <<text>>, TRUE, 0)
       /\ UNCHANGED <<prefVars, exported, sessionVars, now, habits, miniGoals, ifThenPlans, points, analytics,
                      habitHistory, resets, removed>>

\* deleteEntry(id)
DeleteEntry(id) ==
  /\ entries' = WithoutId(entries, id)
  /\ EntriesRendered
  /\ store' = [ store EXCEPT !.entries = Some(JSONstringify(entries')) ]
  /\ removed' = IF HasId(entries, id) THEN removed + 1 ELSE removed
  /\ lastOp' = Op("deleteEntry", <<id>>, HasId(entries, id), Len(entries) - Len(entries'))
  /\ UNCHANGED <<prefVars, exported, sessionVars, now, habits, miniGoals, ifThenPlans, points, analytics,
                 habitHistory, resets, appended>>

\* Variant for sensitivity analysis: handleTimerComplete without its setAnalytics call.
HandleTimerCompleteUncounted ==
  /\ Room
  /\ Len(entries) < MaxLog
  /\ appended < MaxAppends
  /\ analytics.timerSessions < MaxCount
  /\ isActive' = FALSE
  /\ timeLeft' = TIMER_DURATION
  /\ points' = points + 1
  /\ entries' = Prepend(NewEntry(BURST_TEXT, now), entries)
  /\ EntriesRendered
  /\ store' = [ store EXCEPT !.entries = Some(JSONstringify(entries')),
                             !.points = Some(NumToString(points')) ]
  /\ appended' = appended + 1
  /\ lastOp' = Op("handleTimerComplete", <<>>, TRUE, 0)
  /\ UNCHANGED <<prefVars, exported, queuedReset, running, now, habits, miniGoals,
                 ifThenPlans, habitHistory, resets, removed, analytics>>

\* handleTimerComplete: the countdown reached 0.
HandleTimerComplete ==
  /\ Room
  /\ Len(entries) < MaxLog
  /\ appended < MaxAppends
  /\ analytics.timerSessions < MaxCount
  /\ isActive' = FALSE
  /\ timeLeft' = TIMER_DURATION
  /\ points' = points + 1
  /\ analytics' = [ analytics EXCEPT !.timerSessions = @ + 1 ]
  /\ entries' = Prepend(NewEntry(BURST_TEXT, now), entries)
  /\ EntriesRendered
  /\ store' = [ store EXCEPT !.entries = Some(JSONstringify(entries')),
                             !.points = Some(NumToString(points')),
                             !.analytics = Some(JSONstringify(analytics')) ]
  /\ appended' = appended + 1
  /\ lastOp' = Op("handleTimerComplete", <<>>, TRUE, 0)
  /\ UNCHANGED <<prefVars, exported, queuedReset, running, now, habits, miniGoals,
                 ifThenPlans, habitHistory, resets, removed>>

(* ------------------------------ countdown ----------------------------- *)

\* Whether the bounds leave room for the entry and the counts of a completion.
CreditFits ==
  /\ Room
  /\ Len(entries) < MaxLog
  /\ appended < MaxAppends
  /\ analytics.timerSessions < MaxCount

\* The seconds of countdown that led to no completion: the seconds elapsed
\* less those of the completed countdowns and of the current one.
Wasted ==
  (now \div 1000) - (appended * TIMER_DURATION + (TIMER_DURATION - timeLeft))

\* toggleTimer: setIsActive(!isActive)
ToggleTimer ==
  /\ timeLeft > 0
  /\ isActive' = ~isActive
  /\ lastOp' = Op("toggleTimer", <<>>, isActive', 0)
  /\ UNCHANGED <<now, repoVars, memoVars, store, histVars, exported,
                 timeLeft, queuedReset, running>>

\* resetTimer: setIsActive(false); setTimeLeft(TIMER_DURATION)
ResetTimer ==
  /\ timeLeft > 0
  /\ Wasted + (TIMER_DURATION - timeLeft) <= MaxWaste
  /\ isActive' = FALSE
  /\ timeLeft' = TIMER_DURATION
  /\ lastOp' = Op("resetTimer", <<>>, TRUE, 0)
  /\ UNCHANGED <<now, repoVars, memoVars, store, histVars, exported, queuedReset, running>>

\* The interval of the timer effect fires after 1000 ms:
\* setTimeLeft(prev => prev - 1)
TimerTick ==
  /\ isActive
  /\ timeLeft > 0
  /\ CreditFits
  /\ timeLeft' = timeLeft - 1
  /\ now' = now + 1000
  /\ lastOp' = Op("timerTick", <<>>, timeLeft' = 0, 0)
  /\ UNCHANGED <<repoVars, memoVars, store, histVars, exported, isActive, queuedReset, running>>

\* The timer effect of the render with timeLeft === 0: handleTimerComplete().
TimerElapsed ==
  /\ timeLeft = 0
  /\ HandleTimerComplete

(* ----------------------- mini-goals and if-then ----------------------- *)

\* addMiniGoal with newGoal = { text, deadline }.
AddMiniGoal(text, deadline) ==
  IF IsBlank(text)
  THEN /\ lastOp' = Op("addMiniGoal", <<text, deadline>>, FALSE, 0)
       /\ UNCHANGED <<now, repoVars, memoVars, store, histVars, exported, sessionVars>>
  ELSE /\ Room
       /\ Len(miniGoals) < MaxPlans
       /\ analytics.goalsCreated < MaxCount
       /\ miniGoals' = Append(miniGoals,
                              [id |-> NumToString(now), text |-> trim(text),
                               deadline |-> deadline, completed |-> FALSE])
       /\ analytics' = [ analytics EXCEPT !.goalsCreated = @ + 1 ]
       /\ store' = [ store EXCEPT !.miniGoals = Some(JSONstringify(miniGoals')),
                                  !.analytics = Some(JSONstringify(analytics')) ]
       /\ lastOp' = Op("addMiniGoal", <<text, deadline>>, TRUE, 0)
       /\ UNCHANGED <<prefVars, exported, sessionVars, now, entries, habits, ifThenPlans, points, habitHistory,
                      memoVars, histVars>>

\* toggleMiniGoal(id)
ToggleMiniGoal(id) ==
  /\ miniGoals' = Flip(miniGoals, id)
  /\ store' = [ store EXCEPT !.miniGoals = Some(JSONstringify(miniGoals')) ]
  /\ lastOp' = Op("toggleMiniGoal", <<id>>, HasId(miniGoals, id), 0)
  /\ UNCHANGED <<prefVars, exported, sessionVars, now, entries, habits, ifThenPlans, points, analytics, habitHistory,
                 memoVars, histVars>>

\* deleteMiniGoal(id)
DeleteMiniGoal(id) ==
  /\ miniGoals' = WithoutId(miniGoals, id)
  /\ store' = [ store EXCEPT !.miniGoals = Some(JSONstringify(miniGoals')) ]
  /\ lastOp' = Op("deleteMiniGoal", <<id>>, HasId(miniGoals, id),
                  Len(miniGoals) - Len(miniGoals'))
  /\ UNCHANGED <<prefVars, exported, sessionVars, now, entries, habits, ifThenPlans, points, analytics, habitHistory,
                 memoVars, histVars>>

\* The plan appended by addIfThen and applyPreset, and its counter.
PlanCreated(trigger, action) ==
  /\ Room
  /\ Len(ifThenPlans) < MaxPlans
  /\ analytics.ifThenCreated < MaxCount
  /\ ifThenPlans' = Append(ifThenPlans,
                           [id |-> NumToString(now), trigger |-> trigger, action |-> action])
  /\ analytics' = [ analytics EXCEPT !.ifThenCreated = @ + 1 ]
  /\ store' = [ store EXCEPT !.ifThen = Some(JSONstringify(ifThenPlans')),
                             !.analytics = Some(JSONstringify(analytics')) ]
  /\ UNCHANGED <<prefVars, exported, sessionVars, now, entries, habits, miniGoals, points, habitHistory,
                 memoVars, histVars>>

\* addIfThen with newIfThen = { trigger, action }.
AddIfThen(trigger, action) ==
  IF IsBlank(trigger) \/ IsBlank(action)
  THEN /\ lastOp' = Op("addIfThen", <<trigger, action>>, FALSE, 0)
       /\ UNCHANGED <<now, repoVars, memoVars, store, histVars, exported, sessionVars>>
  ELSE /\ PlanCreated(trim(trigger), trim(action))
       /\ lastOp' = Op("addIfThen", <<trigger, action>>, TRUE, 0)

\* deleteIfThen(id)
DeleteIfThen(id) ==
  /\ ifThenPlans' = WithoutId(ifThenPlans, id)
  /\ store' = [ store EXCEPT !.ifThen = Some(JSONstringify(ifThenPlans')) ]
  /\ lastOp' = Op("deleteIfThen", <<id>>, HasId(ifThenPlans, id),
                  Len(ifThenPlans) - Len(ifThenPlans'))
  /\ UNCHANGED <<prefVars, exported, sessionVars, now, entries, habits, miniGoals, points, analytics, habitHistory,
                 memoVars, histVars>>

\* applyPreset(IF_THEN_PRESETS[k])
ApplyPreset(k) ==
  /\ PlanCreated(IF_THEN_PRESETS[k].trigger, IF_THEN_PRESETS[k].action)
  /\ lastOp' = Op("applyPreset", <<IF_THEN_PRESETS[k].trigger>>, TRUE, 0)

\* The ids a user can click in a list, and one that is not there.
IdInputs(s) == { s[i].id : i \in DOMAIN s } \cup {MissingId}

(* ----------------- vision, WOOP, notes and the theme ------------------ *)

\* onChange of the vision input: setVision(e.target.value)
SetVision(text) ==
  /\ vision' = text
  /\ store' = [ store EXCEPT !.vision = Some(vision') ]
  /\ lastOp' = Op("setVision", <<text>>, TRUE, 0)
  /\ UNCHANGED <<now, entries, habits, miniGoals, ifThenPlans, points, analytics,
                 habitHistory, woop, activeTheme, futureCostNotes, exported, sessionVars,
                 memoVars, histVars>>

\* onChange of a WOOP input: setWoop({ ...woop, [field]: e.target.value })
SetWoop(field, text) ==
  /\ woop' = [ woop EXCEPT ![field] = text ]
  /\ store' = [ store EXCEPT !.woop = Some(JSONstringify(woop')) ]
  /\ lastOp' = Op("setWoop", <<field, text>>, TRUE, 0)
  /\ UNCHANGED <<now, entries, habits, miniGoals, ifThenPlans, points, analytics,
                 habitHistory, vision, activeTheme, futureCostNotes, exported, sessionVars,
                 memoVars, histVars>>

\* onChange of the future cost textarea:
\* setFutureCostNotes(prev => ({ ...prev, [getTodayString()]: e.target.value }))
SetFutureCostNote(text) ==
  /\ futureCostNotes' = [ d \in DOMAIN futureCostNotes \cup {getTodayString} |->
                            IF d = getTodayString THEN text ELSE futureCostNotes[d] ]
  /\ store' = [ store EXCEPT !.futureCostNotes = Some(JSONstringify(futureCostNotes')) ]
  /\ lastOp' = Op("setFutureCostNote", <<text>>, TRUE, 0)
  /\ UNCHANGED <<now, entries, habits, miniGoals, ifThenPlans, points, analytics,
                 habitHistory, vision, woop, activeTheme, exported, sessionVars, memoVars, histVars>>

\* Variant for sensitivity analysis: a selector that treats every theme as unlocked.
IsUnlockedAlways(p, theme) == TRUE

\* const isUnlocked = points >= theme.unlockPoints
IsUnlocked(p, theme) == p >= theme.unlockPoints

\* A click on the k-th button of the theme selector: the button is disabled
\* when the theme is locked, else onClick runs setActiveTheme(theme.color).
SelectTheme(k) ==
  /\ IF IsUnlocked(points, THEMES[k])
     THEN /\ activeTheme' = THEMES[k].color
          /\ store' = [ store EXCEPT !.theme = Some(activeTheme') ]
     ELSE UNCHANGED <<activeTheme, store>>
  /\ lastOp' = Op("selectTheme", <<k>>, IsUnlocked(points, THEMES[k]), 0)
  /\ UNCHANGED <<now, entries, habits, miniGoals, ifThenPlans, points, analytics,
                 habitHistory, vision, woop, futureCostNotes, exported, sessionVars,
                 memoVars, histVars>>

(* ------------------------------- badges ------------------------------- *)

\* The ids of the badge catalog.
BadgeIds == { "starter", "consistent", "focused", "planner", "master" }

\* BADGES[id].requirement({ points, streak, analytics })
requirement(id, stats) ==
  CASE id = "starter"    -> stats.points >= 10
    [] id = "consistent" -> stats.streak >= 3
    [] id = "focused"    -> stats.analytics.timerSessions >= 10
    [] id = "planner"    -> stats.analytics.ifThenCreated >= 5
    [] id = "master"     -> stats.points >= 500

\* const isEarned = badge.requirement({ points, streak, analytics }), at render.
isEarned(id) ==
  requirement(id, [points |-> points, streak |-> streak, analytics |-> analytics])

(* ------------------------- export and import -------------------------- *)

\* The object exportData builds; toISOString() of the instant is the instant.
ExportDoc ==
  [ entries     |-> entries,
    habits      |-> habits,
    vision      |-> vision,
    miniGoals   |-> miniGoals,
    ifThenPlans |-> ifThenPlans,
    woop        |-> woop,
    points      |-> points,
    activeTheme |-> activeTheme,
    timestamp   |-> now ]

\* exportData: the document is serialized and downloaded.
ExportData ==
  /\ exported' = Some(JSONstringify(ExportDoc))
  /\ lastOp' = Op("exportData", <<>>, TRUE, 0)
  /\ UNCHANGED <<now, repoVars, memoVars, store, histVars, sessionVars>>

\* A backup file cut short: the start of the text of data, on which JSON.parse throws.
Truncated(data) == [json |-> data, truncated |-> TRUE]

\* Variant for sensitivity analysis: a parser that accepts a text cut short.
ParsesAlways(text) == TRUE

\* Whether JSON.parse(text) returns instead of throwing.
Parses(text) == "truncated" \notin DOMAIN text

\* Variant for sensitivity analysis: a test that also skips an empty entries list.
TruthyNonEmpty(key, v) ==
  CASE key = "points" -> v # 0
    [] key = "vision" -> v # <<>>
    [] key = "activeTheme" -> v # ""
    [] key = "entries" -> Len(v) > 0
    [] OTHER -> TRUE

\* if (data[key]): 0 and '' are falsy, every list and every object is truthy.
Truthy(key, v) ==
  CASE key = "points" -> v # 0
    [] key = "vision" -> v # <<>>
    [] key = "activeTheme" -> v # ""
    [] OTHER -> TRUE

\* Whether importData calls the setter of key: if (data.key) setKey(data.key)
Given(data, key) == key \in DOMAIN data /\ Truthy(key, data[key])

\* The value of a repository after importData's setters.
Merged(data, key, current) == IF Given(data, key) THEN data[key] ELSE current

\* importData on the file chosen (none when the dialog is cancelled), run to
\* the end of reader.onload.
ImportData(file) ==
  IF file = None \/ ~Parses(file[1])
  THEN /\ lastOp' = Op("importData", file, FALSE, 0)
       /\ UNCHANGED <<now, repoVars, memoVars, store, histVars, exported, sessionVars>>
  ELSE LET data == JSONparse(file[1])
       IN  /\ entries' = Merged(data, "entries", entries)
           /\ habits' = Merged(data, "habits", habits)
           /\ vision' = Merged(data, "vision", vision)
           /\ miniGoals' = Merged(data, "miniGoals", miniGoals)
           /\ ifThenPlans' = Merged(data, "ifThenPlans", ifThenPlans)
           /\ woop' = Merged(data, "woop", woop)
           /\ points' = Merged(data, "points", points)
           /\ activeTheme' = Merged(data, "activeTheme", activeTheme)
           /\ habitHistory' = Merged(data, "habitHistory", habitHistory)
           /\ futureCostNotes' = Merged(data, "futureCostNotes", futureCostNotes)
           /\ analytics' = Merged(data, "analytics", analytics)
           /\ IF Given(data, "entries")
              THEN EntriesRendered
              ELSE UNCHANGED memoVars
           /\ store' =
                [ store EXCEPT
                    !.entries = IF Given(data, "entries")
                                THEN Some(JSONstringify(entries')) ELSE @,
                    !.habits = IF Given(data, "habits")
                               THEN Some(JSONstringify(habits')) ELSE @,
                    !.vision = IF Given(data, "vision") THEN Some(vision') ELSE @,
                    !.miniGoals = IF Given(data, "miniGoals")
                                  THEN Some(JSONstringify(miniGoals')) ELSE @,
                    !.ifThen = IF Given(data, "ifThenPlans")
                               THEN Some(JSONstringify(ifThenPlans')) ELSE @,
                    !.woop = IF Given(data, "woop")
                             THEN Some(JSONstringify(woop')) ELSE @,
                    !.points = IF Given(data, "points")
                               THEN Some(NumToString(points')) ELSE @,
                    !.theme = IF Given(data, "activeTheme")
                              THEN Some(activeTheme') ELSE @,
                    !.habitHistory = IF Given(data, "habitHistory")
                                     THEN Some(JSONstringify(habitHistory')) ELSE @,
                    !.futureCostNotes = IF Given(data, "futureCostNotes")
                                        THEN Some(JSONstringify(futureCostNotes')) ELSE @,
                    !.analytics = IF Given(data, "analytics")
                                  THEN Some(JSONstringify(analytics')) ELSE @ ]
           /\ lastOp' = Op("importData", file, TRUE, 0)
           /\ UNCHANGED <<now, histVars, exported, sessionVars>>

\* The repositories by the key each has in a backup document.
RepoOf ==
  [ entries         |-> entries,
    habits          |-> habits,
    vision          |-> vision,
    miniGoals       |-> miniGoals,
    ifThenPlans     |-> ifThenPlans,
    woop            |-> woop,
    points          |-> points,
    activeTheme     |-> activeTheme,
    habitHistory    |-> habitHistory,
    futureCostNotes |-> futureCostNotes,
    analytics       |-> analytics ]

\* The site data is cleared and the page loaded again: every repository
\* starts from its default.  The record keeps the repositories as they were
\* and whether the step before was an export.
ClearSiteData ==
  /\ resets[getTodayString] <= MaxClears
  /\ Mounted(EmptyStore)
  /\ lastOp' = Op("clear", <<RepoOf>>, lastOp.op = "exportData", 0)

(* ------------------------- startup and the store ---------------------- *)

\* The slots whose useState initializer calls JSON.parse on the saved text.
JSONSlots ==
  { "entries", "habits", "miniGoals", "ifThen", "woop", "habitHistory",
    "futureCostNotes", "analytics" }

\* Whether an initializer throws on store st: saved ? JSON.parse(saved) : ...
\* with a saved text that does not parse.
Throws(st) == \E slot \in JSONSlots : st[slot] # None /\ ~Parses(st[slot][1])

\* The page is closed.
Close ==
  /\ running
  /\ running' = FALSE
  /\ lastOp' = Op("close", <<>>, TRUE, 0)
  /\ UNCHANGED <<now, repoVars, memoVars, store, histVars, exported,
                 timeLeft, isActive, queuedReset>>

\* While the page is closed a slot is removed from the store, or the text of
\* a JSON slot is cut short.
Damage(slot, how) ==
  /\ ~running
  /\ how = "corrupt" => slot \in JSONSlots
  /\ store' = [ store EXCEPT ![slot] =
                  IF how = "absent" THEN None
                  ELSE Some(Truncated(IF @ = None THEN <<>> ELSE JSONparse(@[1]))) ]
  /\ lastOp' = Op("damage", <<slot, how>>, TRUE, 0)
  /\ UNCHANGED <<now, repoVars, memoVars, histVars, exported, sessionVars>>

\* The page is opened: the initializers run; when one throws, the render
\* fails and nothing is mounted, else the session starts as in Restart.
Startup ==
  /\ ~running
  /\ IF Throws(store)
     THEN /\ lastOp' = Op("mountError", <<>>, FALSE, 0)
          /\ UNCHANGED <<now, repoVars, memoVars, store, histVars, exported, sessionVars>>
     ELSE Restart

(* --------------------------- specifications --------------------------- *)

\* The habit set and the daily rollover.
NextHabits ==
  \/ NextDay
  \/ CheckReset
  \/ Restart
  \/ \E id \in HabitIdInputs : ToggleHabit(id)

SpecHabits == Init /\ [][NextHabits]_vars

\* The Activity Log and the metrics derived from it.
NextLog ==
  \/ Tick
  \/ NextDay
  \/ Restart
  \/ \E text \in Texts : AddEntry(text)
  \/ \E id \in IdInputs(entries) : DeleteEntry(id)
  \/ HandleTimerComplete

SpecLog == Init /\ [][NextLog]_vars

\* The creation of entries, mini-goals and if-then plans.
NextCreate ==
  \/ Tick
  \/ \E text \in Texts : AddEntry(text)
  \/ HandleTimerComplete
  \/ \E text \in Texts, deadline \in Deadlines : AddMiniGoal(text, deadline)
  \/ \E in \in PlanInputs : AddIfThen(in.trigger, in.action)
  \/ \E k \in PresetInputs : ApplyPreset(k)

SpecCreate == Init /\ [][NextCreate]_vars

\* The mini-goals and the if-then plans.
NextPlans ==
  \/ Tick
  \/ \E text \in Texts, deadline \in Deadlines : AddMiniGoal(text, deadline)
  \/ \E id \in IdInputs(miniGoals) : ToggleMiniGoal(id)
  \/ \E id \in IdInputs(miniGoals) : DeleteMiniGoal(id)
  \/ \E in \in PlanInputs : AddIfThen(in.trigger, in.action)
  \/ \E id \in IdInputs(ifThenPlans) : DeleteIfThen(id)
  \/ \E k \in PresetInputs : ApplyPreset(k)

SpecPlans == Init /\ [][NextPlans]_vars

\* The lists a session finds stored after n creations at the instants 0..n-1.
EntriesAt(n) == [ k \in 1..n |-> NewEntry(ItemText, n - k) ]
GoalsAt(n) ==
  [ k \in 1..n |-> [id |-> NumToString(k - 1), text |-> ItemText,
                     deadline |-> <<>>, completed |-> FALSE] ]
PlansAt(n) ==
  [ k \in 1..n |-> [id |-> NumToString(k - 1),
                     trigger |-> IF_THEN_PRESETS[1].trigger,
                     action  |-> IF_THEN_PRESETS[1].action] ]

Min(a, b) == IF a < b THEN a ELSE b

(* A session mounted over a store that holds a log, a goal list and a plan   *)
(* list of up to n items each, made earlier the same day.                   *)
InitItems ==
  \E n \in 0..MaxPlans : \E ng \in {0, n}, np \in {0, n} :
    /\ now = MaxLog + MaxPlans
    /\ entries = EntriesAt(Min(n, MaxLog))
    /\ habits = AllPending(DefaultHabits)
    /\ miniGoals = GoalsAt(ng)
    /\ ifThenPlans = PlansAt(np)
    /\ points = 0
    /\ analytics = [ DefaultAnalytics EXCEPT !.goalsCreated = ng, !.ifThenCreated = np ]
    /\ habitHistory = <<>>
    /\ vision = <<>>
    /\ woop = DefaultWoop
    /\ activeTheme = THEMES[1].color
    /\ futureCostNotes = <<>>
    /\ exported = None
    /\ timeLeft = TIMER_DURATION
    /\ isActive = FALSE
    /\ queuedReset = FALSE
    /\ running = TRUE
    /\ streak = calculateStreak(entries, now)
    /\ velocityData = VelocityOf(ActivityMapOf(entries), now)
    /\ last30Days = getLast30Days(now)
    /\ store = [ PersistAll(FirstStore(entries), entries, habits, miniGoals, ifThenPlans,
                            points, analytics, habitHistory)
                 EXCEPT !.lastReset = Some(getTodayString) ]
    /\ lastOp = Op("mount", <<>>, FALSE, 0)
    /\ resets = NoResets
    /\ appended = Len(entries)
    /\ removed = 0

\* The delete and toggle handlers of every list, and the habit toggle.
NextItems ==
  \/ \E id \in IdInputs(entries) : DeleteEntry(id)
  \/ \E id \in IdInputs(miniGoals) : ToggleMiniGoal(id)
  \/ \E id \in IdInputs(miniGoals) : DeleteMiniGoal(id)
  \/ \E id \in IdInputs(ifThenPlans) : DeleteIfThen(id)
  \/ \E id \in HabitIdInputs \ {DefaultHabits[2].id} : ToggleHabit(id)

SpecItems == InitItems /\ [][NextItems]_vars

\* A backup of a populated engine, as a file of an earlier session holds it.
DocFull ==
  [ entries         |-> EntriesAt(1),
    habits          |-> Flip(DefaultHabits, DefaultHabits[1].id),
    vision          |-> <<"v">>,
    miniGoals       |-> GoalsAt(1),
    ifThenPlans     |-> PlansAt(1),
    woop            |-> [ DefaultWoop EXCEPT !.wish = <<"w">> ],
    points          |-> THEMES[2].unlockPoints,
    activeTheme     |-> THEMES[2].color,
    habitHistory    |-> [ d \in {0} |-> <<DefaultHabits[1].label>> ],
    futureCostNotes |-> [ d \in {0} |-> <<"n">> ],
    analytics       |-> [ DefaultAnalytics EXCEPT !.habitsCompleted = 1,
                                                  !.goalsCreated = 1,
                                                  !.ifThenCreated = 1 ],
    timestamp       |-> 0 ]
\* A document that holds points and nothing else.
DocPoints == [ points |-> THEMES[2].unlockPoints ]
\* A document whose keys are present with falsy values, and an empty list.
DocFalsy == [ entries |-> <<>>, points |-> 0, vision |-> <<>>, activeTheme |-> "" ]
\* A document that parses and whose analytics lacks three of the four counters.
DocBadShape == [ entries |-> EntriesAt(1), analytics |-> [ timerSessions |-> 1 ] ]

\* The files a user picks in the import dialog: none, the last export, a
\* hand-made or older backup, and one cut short.
BackupFiles ==
  { None, exported,
    Some(JSONstringify(DocFull)), Some(JSONstringify(DocPoints)),
    Some(JSONstringify(DocFalsy)), Some(JSONstringify(DocBadShape)),
    Some(Truncated(DocFull)) }

\* What a user types in the vision, WOOP and future cost inputs.
NoteInputs == { <<>>, <<"v">> }

\* Export, import, and the repositories only they and their inputs write.
NextBackup ==
  \/ SetFutureCostNote(<<"m">>)
  \/ \E text \in NoteInputs : SetVision(text)
  \/ SetWoop("plan", <<"p">>)
  \/ \E k \in 1..2 : SelectTheme(k)
  \/ ExportData
  \/ \E file \in BackupFiles : ImportData(file)
  \/ ClearSiteData
  \/ Restart

SpecBackup == Init /\ [][NextBackup]_vars

\* Backups that hold only points, one short of the second and of the third
\* theme's unlockPoints.
PointsFiles ==
  { Some(JSONstringify([ points |-> THEMES[k].unlockPoints - 1 ])) : k \in 2..3 }

\* Points, the timer that earns them and the theme selector they unlock.
NextTheme ==
  \/ HandleTimerComplete
  \/ \E id \in IdInputs(entries) : DeleteEntry(id)
  \/ \E k \in DOMAIN THEMES : SelectTheme(k)
  \/ \E file \in PointsFiles : ImportData(file)
  \/ Restart

SpecTheme == Init /\ [][NextTheme]_vars

\* The handlers that count in the analytics, and the import that replaces it.
NextAnalytics ==
  \/ HandleTimerComplete
  \/ \E id \in HabitIdInputs \ {DefaultHabits[2].id} : ToggleHabit(id)
  \/ AddMiniGoal(ItemText, <<>>)
  \/ \E in \in PlanInputs : AddIfThen(in.trigger, in.action)
  \/ ApplyPreset(1)
  \/ ImportData(Some(JSONstringify(DocFull)))

SpecAnalytics == Init /\ [][NextAnalytics]_vars

\* The handlers that write a repository, the import and the reload, all on
\* one day; the delete handlers and the rollover are in the specifications
\* above.
NextPersist ==
  \/ Restart
  \/ ToggleHabit(DefaultHabits[1].id)
  \/ HandleTimerComplete
  \/ AddMiniGoal(ItemText, <<>>)
  \/ \E id \in IdInputs(miniGoals) : ToggleMiniGoal(id)
  \/ ApplyPreset(1)
  \/ SetVision(<<"v">>)
  \/ SetWoop("wish", <<"w">>)
  \/ SetFutureCostNote(<<"m">>)
  \/ SelectTheme(2)
  \/ ImportData(Some(JSONstringify(DocFull)))

SpecPersist == Init /\ [][NextPersist]_vars

\* The slots damaged between two sessions.
DamagedSlots == { "entries", "habits", "points", "analytics" }

\* Sessions that end, a store damaged in between, and the next startup.
NextStartup ==
  \/ running /\ ToggleHabit(DefaultHabits[1].id)
  \/ running /\ HandleTimerComplete
  \/ Close
  \/ \E slot \in DamagedSlots, how \in {"absent", "corrupt"} : Damage(slot, how)
  \/ Startup

SpecStartup == Init /\ [][NextStartup]_vars

\* The habit set over the days, and the import that replaces its history.
NextHistory ==
  \/ NextDay
  \/ CheckReset
  \/ Restart
  \/ \E id \in HabitIdInputs : ToggleHabit(id)
  \/ ImportData(Some(JSONstringify(DocFull)))

SpecHistory == Init /\ [][NextHistory]_vars

\* A log of n entries made on calendar day d, most recent first.
EntriesOn(d, n) == [ k \in 1..n |-> NewEntry(ItemText, d * MsPerDay + n - k) ]

(* A session mounted on day 1 over a stored log with up to MaxHeat entries   *)
(* of that day and up to MaxHeatBefore entries of the day before.           *)
InitHeatmap ==
  \E n1 \in 0..MaxHeat, n0 \in 0..MaxHeatBefore :
    /\ now = MsPerDay + MaxHeat
    /\ entries = EntriesOn(1, n1) \o EntriesOn(0, n0)
    /\ habits = AllPending(DefaultHabits)
    /\ miniGoals = <<>>
    /\ ifThenPlans = <<>>
    /\ points = 0
    /\ analytics = DefaultAnalytics
    /\ habitHistory = <<>>
    /\ vision = <<>>
    /\ woop = DefaultWoop
    /\ activeTheme = THEMES[1].color
    /\ futureCostNotes = <<>>
    /\ exported = None
    /\ timeLeft = TIMER_DURATION
    /\ isActive = FALSE
    /\ queuedReset = FALSE
    /\ running = TRUE
    /\ streak = calculateStreak(entries, now)
    /\ velocityData = VelocityOf(ActivityMapOf(entries), now)
    /\ last30Days = getLast30Days(now)
    /\ store = [ FirstStore(entries) EXCEPT !.lastReset = Some(getTodayString) ]
    /\ lastOp = Op("mount", <<>>, FALSE, 0)
    /\ resets = NoResets
    /\ appended = Len(entries)
    /\ removed = 0

\* The heatmap is rendered at mount and after every change of the log.
NextHeatmap ==
  \/ Restart
  \/ \E id \in IdInputs(entries) : DeleteEntry(id)

SpecHeatmap == InitHeatmap /\ [][NextHeatmap]_vars

\* The rollover in its two steps, with sessions that end at any point, the
\* updater queued or not, and start again.
NextRollover ==
  \/ ~(running /\ queuedReset) /\ NextDay
  \/ running /\ ~queuedReset /\ (\E id \in HabitIdInputs : ToggleHabit(id))
  \/ CheckResetCall
  \/ RenderReset
  \/ Close
  \/ Startup

SpecRollover == Init /\ [][NextRollover]_vars

\* setInterval(checkReset, 60000) keeps firing while the page is open, a
\* queued updater is rendered, and a closed page is opened again.
SpecRolloverLive ==
  /\ SpecRollover
  /\ WF_vars(CheckResetCall)
  /\ WF_vars(RenderReset)
  /\ WF_vars(Startup)

\* The rollover in one step, with the interval that keeps firing and no
\* session that ends.
SpecHabitsLive == SpecHabits /\ WF_vars(CheckReset)

\* A backup that holds the vision, the WOOP, the points, the theme and the
\* notes of DocFull and no list.
DocPrefs ==
  [ key \in {"vision", "woop", "points", "activeTheme", "futureCostNotes"} |-> DocFull[key] ]

\* The rollover over a populated engine: the days, the check, and handlers
\* that move the repositories the rollover must leave alone.
NextFrame ==
  \/ NextDay
  \/ CheckReset
  \/ Restart
  \/ ToggleHabit(DefaultHabits[1].id)
  \/ ToggleMiniGoal(GoalsAt(1)[1].id)
  \/ ImportData(Some(JSONstringify(DocPrefs)))

\* A session mounted over a store with a log, a goal list and a plan list
\* that all hold an item.
InitFrame ==
  /\ InitItems
  /\ Len(entries) > 0
  /\ Len(miniGoals) > 0
  /\ Len(ifThenPlans) > 0

SpecFrame == InitFrame /\ [][NextFrame]_vars

\* The countdown from a fresh store: start, pause, reset, the seconds, the
\* completion and a reload.
NextTimer ==
  \/ ToggleTimer
  \/ ResetTimer
  \/ TimerTick
  \/ TimerElapsed
  \/ Wasted + (TIMER_DURATION - timeLeft) <= MaxWaste /\ Restart

SpecTimer == Init /\ [][NextTimer]_vars

\* The logs of the streak function's input space: one entry on each day of a
\* set of days, most recent first, all at the same time of day.
RECURSIVE LogOfDays(_, _)
LogOfDays(days, ms) ==
  IF days = {} THEN <<>>
  ELSE LET d == CHOOSE x \in days : \A y \in days : y <= x
       IN  <<NewEntry(<<"a">>, d * MsPerDay + ms)>> \o LogOfDays(days \ {d}, ms)

(* A session mounted on any day up to MaxStreakDay over a stored log with    *)
(* entries on any set of days up to that day.                               *)
InitStreak ==
  \E today \in 0..MaxStreakDay, ms \in {0, MaxMs} :
    \E days \in SUBSET (0..today) :
      /\ now = today * MsPerDay + MaxMs
      /\ entries = LogOfDays(days, ms)
      /\ habits = AllPending(DefaultHabits)
      /\ miniGoals = <<>>
      /\ ifThenPlans = <<>>
      /\ points = 0
      /\ analytics = DefaultAnalytics
      /\ habitHistory = <<>>
      /\ vision = <<>>
      /\ woop = DefaultWoop
      /\ activeTheme = THEMES[1].color
      /\ futureCostNotes = <<>>
      /\ exported = None
      /\ timeLeft = TIMER_DURATION
      /\ isActive = FALSE
      /\ queuedReset = FALSE
      /\ running = TRUE
      /\ streak = calculateStreak(entries, now)
      /\ velocityData = VelocityOf(ActivityMapOf(entries), now)
      /\ last30Days = getLast30Days(now)
      /\ store = [ FirstStore(entries) EXCEPT !.lastReset = Some(today) ]
      /\ lastOp = Op("mount", <<>>, FALSE, 0)
      /\ resets = NoResets
      /\ appended = Len(entries)
      /\ removed = 0

\* The streak is computed at mount and after every change of the log.
NextStreak ==
  \/ Restart
  \/ \E id \in IdInputs(entries) : DeleteEntry(id)

SpecStreak == InitStreak /\ [][NextStreak]_vars

\* The whole engine: the handlers run in a mounted session that has no
\* render or effect outstanding.
Next ==
  \/ /\ running
     /\ ~queuedReset
     /\ timeLeft > 0
     /\ \/ NextHabits
        \/ NextLog
        \/ NextCreate
        \/ NextPlans
        \/ NextItems
        \/ NextBackup
        \/ NextTheme
        \/ NextAnalytics
        \/ NextPersist
        \/ NextHistory
        \/ NextHeatmap
        \/ NextFrame
  \/ NextStartup
  \/ NextRollover
  \/ NextTimer

Spec == Init /\ [][Next]_vars

(* ------------------------------ claims -------------------------------- *)

Days == 0..MaxDay
Today == getTodayString
IsCheck(op) == op.op \in {"checkReset", "mount"}
Count(s, x) == Cardinality({ i \in DOMAIN s : s[i] = x })
Flags(h) == [ i \in DOMAIN h |-> h[i].completed ]

\* C1: a run of checkReset (by the interval or at mount) on a day whose
\* marker is already written leaves every habit's completed flag and the
\* marker as they were, whatever was toggled since the first run.
C1_RolloverIdempotent ==
  [][ (IsCheck(lastOp') /\ store.lastReset = Some(Today))
        => (Flags(habits') = Flags(habits) /\ store'.lastReset = store.lastReset) ]_vars

\* A second checkReset of a day that found a habit completed and did nothing.
C1_Witness ==
  /\ lastOp.op = "checkReset"
  /\ ~lastOp.ok
  /\ resets[Today] = 1
  /\ lastOp.n > 0
  /\ NumCompleted(habits) = lastOp.n

\* C2: a run of checkReset with a marker that differs from today makes every
\* habit pending and the marker today; with the marker equal to today it
\* changes nothing of the engine's state.
C2_ResetWhenMarkerDiffers ==
  [][ lastOp'.op = "checkReset"
        => IF store.lastReset # Some(Today)
           THEN /\ \A i \in DOMAIN habits' : ~habits'[i].completed
                /\ store'.lastReset = Some(Today)
           ELSE UNCHANGED <<now, repoVars, memoVars, store>> ]_vars

\* A checkReset on a new day that cleared a completed habit.
C2_Witness ==
  /\ lastOp.op = "checkReset"
  /\ lastOp.ok
  /\ lastOp.n > 0
  /\ Today > 0
  /\ NumCompleted(habits) = 0

\* C3: no calendar day sees more than one reset, and a check (by the interval
\* or at mount) leaves exactly one reset counted for today and none added to
\* any other day, however many days were skipped.
C3_ResetOncePerDay ==
  /\ [](\A d \in Days : resets[d] <= 1)
  /\ [][ IsCheck(lastOp')
            => /\ resets'[Today] = 1
               /\ \A d \in Days \ {Today} : resets'[d] = resets[d] ]_vars

\* The first check after a skipped day: one reset today, none on the day skipped.
C3_Witness ==
  /\ IsCheck(lastOp)
  /\ lastOp.ok
  /\ Today >= 2
  /\ resets[Today] = 1
  /\ resets[Today - 1] = 0
  /\ resets[Today - 2] = 1

\* C4: toggleHabit(id) on an existing habit flips the completed flag of that
\* habit and of no other; when the habit becomes completed, habitsCompleted
\* rises by exactly 1 and the label is in today's history, appended when it
\* was not there and the history untouched when it was.
C4_ToggleHabit ==
  [][ \A k \in DOMAIN habits :
        (lastOp'.op = "toggleHabit" /\ lastOp'.arg = <<habits[k].id>>)
          => /\ DOMAIN habits' = DOMAIN habits
             /\ \A i \in DOMAIN habits :
                  /\ habits'[i].id = habits[i].id
                  /\ habits'[i].label = habits[i].label
                  /\ habits'[i].completed = IF i = k THEN ~habits[i].completed
                                            ELSE habits[i].completed
             /\ ~habits[k].completed
                  => /\ analytics'.habitsCompleted = analytics.habitsCompleted + 1
                     /\ Includes(DayHistory(habitHistory', Today), habits[k].label)
                     /\ IF Includes(DayHistory(habitHistory, Today), habits[k].label)
                        THEN habitHistory' = habitHistory
                        ELSE /\ DayHistory(habitHistory', Today)
                                  = Append(DayHistory(habitHistory, Today), habits[k].label)
                             /\ \A d \in DOMAIN habitHistory \ {Today} :
                                  habitHistory'[d] = habitHistory[d] ]_vars

\* A habit toggled to completed while another habit stays completed and
\* today's history already holds a label.
C4_Witness ==
  /\ lastOp.op = "toggleHabit"
  /\ lastOp.ok
  /\ NumCompleted(habits) = 2
  /\ Len(DayHistory(habitHistory, Today)) = 2
  /\ analytics.habitsCompleted = 3

\* C5: no day's history holds a label twice, and a habit that has just been
\* toggled to completed has its label exactly once in today's history.
C5_HistoryNoDuplicates ==
  /\ \A d \in DOMAIN habitHistory :
       \A i, j \in DOMAIN habitHistory[d] :
         habitHistory[d][i] = habitHistory[d][j] => i = j
  /\ (lastOp.op = "toggleHabit" /\ lastOp.ok)
       => \A k \in DOMAIN habits :
            <<habits[k].id>> = lastOp.arg
              => Count(DayHistory(habitHistory, Today), habits[k].label) = 1

\* One habit completed three times on the first day: one label in its history.
C5_Witness ==
  /\ lastOp.op = "toggleHabit"
  /\ lastOp.ok
  /\ Today = 0
  /\ analytics.habitsCompleted = 3
  /\ Len(DayHistory(habitHistory, 0)) = 1

DatesOf(es) == { DayOf(es[i]) : i \in DOMAIN es }

\* The streak of section 4.3: 0 when neither today nor yesterday is in dates,
\* else the length of the longest run of consecutive days in dates that ends
\* at today (when today is in dates) or at yesterday.
RefStreak(dates, today) ==
  IF today \notin dates /\ (today - 1) \notin dates THEN 0
  ELSE LET start == IF today \in dates THEN today ELSE today - 1
           runs  == { k \in 1..(Cardinality(dates)) :
                        \A i \in 0..(k - 1) : (start - i) \in dates }
       IN  CHOOSE k \in runs : \A j \in runs : j <= k

C7_DerivedNeverStale ==
  /\ streak = calculateStreak(entries, now)
  /\ velocityData = VelocityOf(ActivityMapOf(entries), now)
  /\ \A k \in 1..HeatmapWindow :
       toDateString(last30Days[k]) = toDateString(getLast30Days(now)[k])

\* C8 (as claimed): the log is ordered by non-increasing timestamp and its
\* length is the number of appends minus the number of removals of a present
\* entry.
C8_LogOrderedAndCounted ==
  /\ \A i, j \in DOMAIN entries : i < j => entries[i].timestamp >= entries[j].timestamp
  /\ Len(entries) = appended - removed

UniqueIds(s) == \A i, j \in DOMAIN s : s[i].id = s[j].id => i = j

\* C9 (as claimed): no two entries, no two mini-goals and no two if-then
\* plans share an id.
C9_UniqueIds ==
  /\ UniqueIds(entries)
  /\ UniqueIds(miniGoals)
  /\ UniqueIds(ifThenPlans)

AllBlank(text) == \A i \in DOMAIN text : text[i] = " "

\* Whether a creation handler ran on inputs whose required text is blank.
BlankCreation(op) ==
  \/ op.op \in {"addEntry", "addMiniGoal"} /\ AllBlank(op.arg[1])
  \/ op.op = "addIfThen" /\ (AllBlank(op.arg[1]) \/ AllBlank(op.arg[2]))

\* C10: addEntry and addMiniGoal with a blank text, and addIfThen with a blank
\* trigger or a blank action, leave the repositories, the counters, the
\* points, the derived values and the store unchanged.
C10_BlankCreationRejected ==
  [][ BlankCreation(lastOp') => UNCHANGED <<now, repoVars, memoVars, store>> ]_vars

\* A rejected addIfThen (blank action, non-blank trigger) on a populated engine.
C10_Witness ==
  /\ lastOp.op = "addIfThen"
  /\ ~AllBlank(lastOp.arg[1])
  /\ AllBlank(lastOp.arg[2])
  /\ Len(entries) > 0
  /\ Len(ifThenPlans) > 0
  /\ analytics.ifThenCreated > 0

\* Whether op is a delete or a toggle by an id that no item of its collection has.
MissingIdOp(op) ==
  \/ op.op = "deleteEntry" /\ \A i \in DOMAIN entries : entries[i].id # op.arg[1]
  \/ op.op \in {"deleteMiniGoal", "toggleMiniGoal"}
       /\ \A i \in DOMAIN miniGoals : miniGoals[i].id # op.arg[1]
  \/ op.op = "deleteIfThen" /\ \A i \in DOMAIN ifThenPlans : ifThenPlans[i].id # op.arg[1]
  \/ op.op = "toggleHabit" /\ \A i \in DOMAIN habits : habits[i].id # op.arg[1]

\* C11: deleteEntry, deleteMiniGoal, deleteIfThen, toggleHabit and
\* toggleMiniGoal by an id that is not in the collection leave every
\* repository (the collection, the analytics counters and the habit history
\* among them) and the store as they were; the handler completes.
C11_MissingIdIsNoOp ==
  [][ MissingIdOp(lastOp') => (UNCHANGED <<repoVars, store>> /\ lastOp'.n = 0) ]_vars

\* A deleteEntry by an absent id on a log, a goal list and a habit set that
\* are populated.
C11_Witness ==
  /\ lastOp.op = "deleteEntry"
  /\ lastOp.arg = <<MissingId>>
  /\ Len(entries) > 0
  /\ Len(miniGoals) > 0
  /\ NumCompleted(habits) > 0
  /\ analytics.habitsCompleted > 0

\* The keys of the repositories of the engine state.
RepoKeys ==
  { "entries", "habits", "vision", "miniGoals", "ifThenPlans", "woop", "points",
    "activeTheme", "habitHistory", "futureCostNotes", "analytics" }

\* C12 (as claimed): the document exportData has just produced holds every
\* repository of the engine state under its key, with its current value, and
\* an export timestamp.
C12_ExportContainsEverything ==
  lastOp.op = "exportData"
    => /\ exported # None
       /\ LET doc == JSONparse(exported[1])
          IN  /\ "timestamp" \in DOMAIN doc
              /\ \A key \in RepoKeys : key \in DOMAIN doc /\ doc[key] = RepoOf[key]

\* C13 (as claimed): when a state is exported, the site data cleared and the
\* exported document imported, every repository that the clear changed is
\* back at the value it had before the clear.
C13_ExportImportRoundTrip ==
  [][ ( /\ lastOp.op = "clear"
        /\ lastOp.ok
        /\ lastOp'.op = "importData"
        /\ lastOp'.arg = exported )
        => \A key \in RepoKeys :
             lastOp.arg[1][key] # RepoOf[key] => RepoOf'[key] = lastOp.arg[1][key] ]_vars

\* JavaScript truthiness of the value a document holds under a key: a number
\* other than 0, a string other than '', any list, any object.
NonFalsy(key, v) ==
  IF key = "points" THEN v # 0
  ELSE IF key = "vision" THEN v # <<>>
  ELSE IF key = "activeTheme" THEN v # ""
  ELSE TRUE

\* Whether op is an importData whose file was read and parsed.
ImportOf(op) == op.op = "importData" /\ op.arg # None /\ "truncated" \notin DOMAIN op.arg[1]

\* C14: an import of a document that parses replaces every repository whose
\* key is present and truthy by the document's value and leaves every
\* repository whose key is absent as it was; a document that holds only
\* points changes no repository but points, and no slot but the points slot.
C14_ImportPartialMerge ==
  [][ ImportOf(lastOp')
        => LET doc == lastOp'.arg[1].json
           IN  /\ \A key \in RepoKeys :
                    /\ (key \in DOMAIN doc /\ NonFalsy(key, doc[key]))
                         => RepoOf'[key] = doc[key]
                    /\ key \notin DOMAIN doc => RepoOf'[key] = RepoOf[key]
               /\ DOMAIN doc = {"points"}
                    => /\ \A key \in RepoKeys \ {"points"} : RepoOf'[key] = RepoOf[key]
                       /\ \A slot \in DOMAIN store \ {"points"} : store'[slot] = store[slot]
                       /\ UNCHANGED memoVars ]_vars

\* The points-only document imported into an engine whose vision and notes
\* are written and whose other repositories hold their defaults.
C14_Witness ==
  /\ lastOp.op = "importData"
  /\ lastOp.ok
  /\ lastOp.arg = Some(JSONstringify(DocPoints))
  /\ points = DocPoints.points
  /\ vision # <<>>
  /\ DOMAIN futureCostNotes # {}
  /\ analytics = DefaultAnalytics
  /\ habitHistory = <<>>

\* C15: an importData whose file does not parse leaves every repository, every
\* derived value and every slot of the store exactly as they were.
C15_UnparsableImportChangesNothing ==
  [][ (lastOp'.op = "importData" /\ lastOp'.arg # None /\ "truncated" \in DOMAIN lastOp'.arg[1])
        => UNCHANGED <<now, repoVars, memoVars, store>> ]_vars

\* A file cut short, imported into an engine that differs from the file's
\* document in every repository the document holds.
C15_Witness ==
  /\ lastOp.op = "importData"
  /\ ~lastOp.ok
  /\ lastOp.arg = Some(Truncated(DocFull))
  /\ \A key \in RepoKeys : RepoOf[key] # DocFull[key]

\* The counters an analytics object has, and the fields a WOOP object has.
AnalyticsShape(an) == DOMAIN an = DOMAIN DefaultAnalytics
WoopShape(w) == DOMAIN w = DOMAIN DefaultWoop

\* Whether every recognized field of a document has the shape of its repository.
WellShaped(doc) ==
  /\ "analytics" \in DOMAIN doc => AnalyticsShape(doc.analytics)
  /\ "woop" \in DOMAIN doc => WoopShape(doc.woop)

\* C16 (as claimed): an import of a document that parses and holds a field of
\* an incompatible shape touches no repository, and no repository ever holds
\* a value of the wrong shape.
C16_ShapeValidatedBeforeMutation ==
  /\ [](AnalyticsShape(analytics) /\ WoopShape(woop))
  /\ [][ (ImportOf(lastOp') /\ ~WellShaped(lastOp'.arg[1].json))
           => UNCHANGED <<repoVars, store>> ]_vars

\* C17 (as claimed): a badge that is earned in a state is earned in the state
\* that follows, whatever operation or day advance leads there.
C17_BadgesNeverUnearned ==
  [][ \A id \in BadgeIds : isEarned(id) => isEarned(id)' ]_vars

\* C18: a click on a theme's button finds the theme unlocked exactly when
\* points >= its unlockPoints; on an unlocked theme it makes the theme's color
\* the active theme, on a locked theme it leaves the active theme, every
\* repository and the store as they were.
C18_ThemeSelection ==
  [][ lastOp'.op = "selectTheme"
        => LET theme == THEMES[lastOp'.arg[1]]
           IN  /\ lastOp'.ok <=> points >= theme.unlockPoints
               /\ IF points >= theme.unlockPoints
                  THEN activeTheme' = theme.color
                  ELSE UNCHANGED <<repoVars, store>> ]_vars

\* A click on the third theme one point short of its unlockPoints, with the
\* second theme active and points earned by the timer.
C18_Witness ==
  /\ lastOp.op = "selectTheme"
  /\ lastOp.arg = <<3>>
  /\ ~lastOp.ok
  /\ points = THEMES[3].unlockPoints - 1
  /\ activeTheme = THEMES[2].color
  /\ analytics.timerSessions > 0

\* C20: every step other than an import leaves points equal or greater; a
\* step that changes points is a timer completion, and a timer completion
\* adds exactly 1.
C20_PointsOnlyIncrease ==
  [][ lastOp'.op # "importData"
        => /\ points' >= points
           /\ points' # points => lastOp'.op = "handleTimerComplete"
           /\ lastOp'.op = "handleTimerComplete" => points' = points + 1 ]_vars

\* A session loaded again with points imported and then raised by the timer.
C20_Witness ==
  /\ lastOp.op = "mount"
  /\ points = THEMES[2].unlockPoints + 1
  /\ analytics.timerSessions = 2
  /\ store.points = Some(<<"5", "1">>)

\* The names of the analytics counters.
Counters == { "timerSessions", "habitsCompleted", "goalsCreated", "ifThenCreated" }

\* Whether analytics' is analytics with counter c raised by 1.
Raised(c) ==
  /\ analytics'[c] = analytics[c] + 1
  /\ \A d \in Counters \ {c} : analytics'[d] = analytics[d]

\* What a step does to the counters: it lowers none, and the step of a
\* counted handler raises its counter by 1.
CountedStep ==
  /\ \A c \in Counters : analytics'[c] >= analytics[c]
  /\ lastOp'.op = "handleTimerComplete" => Raised("timerSessions")
  /\ lastOp'.op = "toggleHabit"
       => (IF lastOp'.ok THEN Raised("habitsCompleted") ELSE analytics' = analytics)
  /\ lastOp'.op = "addMiniGoal"
       => (IF lastOp'.ok THEN Raised("goalsCreated") ELSE analytics' = analytics)
  /\ lastOp'.op = "addIfThen"
       => (IF lastOp'.ok THEN Raised("ifThenCreated") ELSE analytics' = analytics)
  /\ lastOp'.op = "applyPreset" => Raised("ifThenCreated")

\* C19 (as claimed): no step lowers a counter; a timer completion, a toggle
\* to completed, a goal created and a plan created (by hand or from a preset)
\* each raise their counter by exactly 1 and no other; a toggle to pending
\* and a rejected creation change no counter.
C19_CountersMonotone ==
  [][ CountedStep ]_vars

\* The value every repository has after a mount on an empty store.
DefaultRepo ==
  [ entries         |-> <<>>,
    habits          |-> DefaultHabits,
    vision          |-> <<>>,
    miniGoals       |-> <<>>,
    ifThenPlans     |-> <<>>,
    woop            |-> DefaultWoop,
    points          |-> 0,
    activeTheme     |-> THEMES[1].color,
    habitHistory    |-> <<>>,
    futureCostNotes |-> <<>>,
    analytics       |-> DefaultAnalytics ]

\* The text each slot holds once the effects of the last render have run.
Serialized ==
  [ entries         |-> Some(JSONstringify(entries)),
    habits          |-> Some(JSONstringify(habits)),
    vision          |-> Some(vision),
    miniGoals       |-> Some(JSONstringify(miniGoals)),
    ifThen          |-> Some(JSONstringify(ifThenPlans)),
    woop            |-> Some(JSONstringify(woop)),
    points          |-> Some(NumToString(points)),
    theme           |-> Some(activeTheme),
    analytics       |-> Some(JSONstringify(analytics)),
    habitHistory    |-> Some(JSONstringify(habitHistory)),
    futureCostNotes |-> Some(JSONstringify(futureCostNotes)) ]

\* No handler is between its call and the effects of its render.
Quiescent == running /\ ~queuedReset /\ timeLeft # 0

\* C21: whenever the engine is quiescent, each of the eleven repository slots
\* holds the serialization of the in-memory value of its repository, whole.
C21_EverySlotPersisted ==
  Quiescent => \A slot \in DOMAIN Serialized : store[slot] = Serialized[slot]

\* A habit toggled after an import, with every repository away from its
\* default and from the imported document.
C21_Witness ==
  /\ lastOp.op = "toggleHabit"
  /\ store.points = Some(<<"5", "0">>)
  /\ activeTheme = THEMES[2].color
  /\ analytics.habitsCompleted > DocFull.analytics.habitsCompleted
  /\ \E i \in DOMAIN miniGoals : miniGoals[i].completed
  /\ \A key \in RepoKeys \ {"habits"} : RepoOf[key] # DefaultRepo[key]

\* The slot of each repository.
SlotOf ==
  [ entries         |-> "entries",
    habits          |-> "habits",
    vision          |-> "vision",
    miniGoals       |-> "miniGoals",
    ifThenPlans     |-> "ifThen",
    woop            |-> "woop",
    points          |-> "points",
    activeTheme     |-> "theme",
    habitHistory    |-> "habitHistory",
    futureCostNotes |-> "futureCostNotes",
    analytics       |-> "analytics" ]

\* Whether a slot is absent, or holds a text that does not parse.
Absent(st, slot) == st[slot] = None
Corrupt(st, slot) == slot \in JSONSlots /\ st[slot] # None /\ ~Parses(st[slot][1])

\* Whether the step was a startup, failed or not.
IsStartup(op) == op.op \in {"mount", "mountError"}

\* C22 (as claimed): every startup mounts the component, and each repository
\* whose slot was absent or corrupt starts at its default.
C22_StartupNeverFails ==
  [][ IsStartup(lastOp')
        => /\ running'
           /\ \A key \in RepoKeys :
                (Absent(store, SlotOf[key]) \/ Corrupt(store, SlotOf[key]))
                  => RepoOf'[key] = DefaultRepo[key] ]_vars

\* The part of C22 that holds: a startup over a store without a corrupt slot
\* mounts, with the default in every repository whose slot was absent.
C22_AbsentFallsBack ==
  [][ (IsStartup(lastOp') /\ ~Throws(store))
        => /\ running'
           /\ \A key \in RepoKeys :
                Absent(store, SlotOf[key]) => RepoOf'[key] = DefaultRepo[key] ]_vars

\* Whether list s is the start of list t.
IsPrefix(s, t) == Len(s) <= Len(t) /\ SubSeq(t, 1, Len(s)) = s

\* What a step may do to the habit history: each day's list keeps what it
\* held and only grows at its end, and no list of a day before today changes
\* or appears.
HistoryGrows ==
  /\ \A d \in DOMAIN habitHistory :
       /\ d \in DOMAIN habitHistory'
       /\ IsPrefix(habitHistory[d], habitHistory'[d])
  /\ \A d \in Days :
       d < Today => DayHistory(habitHistory', d) = DayHistory(habitHistory, d)

\* C23 (as claimed): over every step the history of each day only grows by
\* appended labels, the history of a day before today does not change, and a
\* toggle to pending leaves the history as it was.
C23_HistoryAppendOnly ==
  [][ /\ HistoryGrows
      /\ (lastOp'.op = "toggleHabit" /\ ~lastOp'.ok) => habitHistory' = habitHistory ]_vars

\* The part of C23 that holds: every step that is not an import.
C23_AppendOnlyButImport ==
  [][ lastOp'.op # "importData"
        => /\ HistoryGrows
           /\ (lastOp'.op = "toggleHabit" /\ ~lastOp'.ok) => habitHistory' = habitHistory ]_vars

\* The four tiers of section 4.3 and the class that shows each.
Tiers == { "none", "low", "medium", "high" }
TierClass ==
  [ none   |-> "bg-engine-border",
    low    |-> "bg-engine-accent/30",
    medium |-> "bg-engine-accent/60",
    high   |-> "bg-engine-accent" ]

\* Whether a count belongs to a tier: 0, 1 to 2, 3 to 5, 6 and above.
InTier(count, tier) ==
  CASE tier = "none"   -> count = 0
    [] tier = "low"    -> count >= 1 /\ count <= 2
    [] tier = "medium" -> count >= 3 /\ count <= 5
    [] tier = "high"   -> count >= 6

\* The heatmap of the current render.
Heatmap == HeatmapOf(last30Days, ActivityMapOf(entries))

\* C24: every cell of the heatmap counts the entries of its day and shows the
\* class of the one tier its count belongs to: none for 0, low for 1 to 2,
\* medium for 3 to 5, high for 6 and above.
C24_HeatmapBucketing ==
  \A k \in DOMAIN Heatmap :
    LET cell == Heatmap[k]
    IN  /\ cell.count = Cardinality({ i \in DOMAIN entries : DayOf(entries[i]) = cell.dateStr })
        /\ Cardinality({ tier \in Tiers : InTier(cell.count, tier) }) = 1
        /\ \A tier \in Tiers : InTier(cell.count, tier) <=> cell.bgColor = TierClass[tier]

\* After a deletion the cell of today holds 6 entries and is high, and the
\* cell of the day before holds 2 and is low.
C24_Witness ==
  /\ lastOp.op = "deleteEntry"
  /\ lastOp.ok
  /\ Heatmap[HeatmapWindow] = [dateStr |-> Today, count |-> 6, bgColor |-> TierClass.high]
  /\ Heatmap[HeatmapWindow - 1] = [dateStr |-> Today - 1, count |-> 2, bgColor |-> TierClass.low]

\* The cell of today holds 5 entries and is medium, the cell of the day before
\* holds 1 and is low, and every other cell is none.
C24_WitnessMedium ==
  /\ Heatmap[HeatmapWindow].count = 5
  /\ Heatmap[HeatmapWindow].bgColor = TierClass.medium
  /\ Heatmap[HeatmapWindow - 1].count = 1
  /\ Heatmap[HeatmapWindow - 1].bgColor = TierClass.low
  /\ \A k \in 1..(HeatmapWindow - 2) : Heatmap[k].bgColor = TierClass.none

\* The stored habits that are completed although today's stored history does
\* not hold their label: completions of an earlier day.
StaleCompleted(st) ==
  LET h  == LoadJSON(st.habits, DefaultHabits)
      hh == LoadJSON(st.habitHistory, <<>>)
  IN  { i \in DOMAIN h : h[i].completed /\ ~Includes(DayHistory(hh, Today), h[i].label) }

\* C25 (as claimed): the store never holds the marker of the current day
\* together with a habit list that has a completion of an earlier day, and a
\* startup either runs the reset or loads no completion of an earlier day.
C25_HabitsDurableBeforeMarker ==
  /\ [](store.lastReset = Some(Today) => StaleCompleted(store) = {})
  /\ [][ lastOp'.op = "mount"
            => (lastOp'.ok \/ \A i \in StaleCompleted(store) : ~habits'[i].completed) ]_vars

\* What C25 excludes: a session started on a day whose marker is written
\* shows a habit completed that was completed on an earlier day.
C25_NoStaleSession ==
  ~( /\ lastOp.op = "mount"
     /\ ~lastOp.ok
     /\ running
     /\ store.lastReset = Some(Today)
     /\ \E i \in StaleCompleted(store) : habits[i].completed )

\* The rollover of day d has run: the marker is d and the session shows no
\* habit completed whose completion is of an earlier day.
RolledOver(d) ==
  /\ running
  /\ store.lastReset = Some(d)
  /\ \A i \in DOMAIN habits :
       habits[i].completed => Includes(DayHistory(habitHistory, d), habits[i].label)

\* C26 (as claimed): when the day is d and the marker is not d, then, unless
\* the day changes again first, a state is reached where the marker is d and
\* every habit completed on an earlier day is pending.
C26_RolloverEventuallyRuns ==
  \A d \in Days :
    (Today = d /\ store.lastReset # Some(d)) ~> (Today # d \/ RolledOver(d))

\* Whether habit i is completed by a toggle of the current day: it is
\* completed and today's history holds its label.
CompletedToday(i) ==
  /\ habits[i].completed
  /\ Includes(DayHistory(habitHistory, Today), habits[i].label)

\* C27 (as claimed): a habit completed by a toggle of the current day stays
\* completed over every step that is not a toggle of that habit and does not
\* end the day, a rollover among them.
C27_RolloverKeepsTodaysCompletions ==
  [][ \A i \in DOMAIN habits :
        ( /\ CompletedToday(i)
          /\ Today' = Today
          /\ ~(lastOp'.op = "toggleHabit" /\ lastOp'.arg = <<habits[i].id>>) )
          => (i \in DOMAIN habits' /\ habits'[i].completed) ]_vars

\* C28: a rollover (checkReset by the interval, or the mount with its
\* checkReset) keeps the habits' ids and labels in their order and leaves
\* every other repository and every slot but the habits slot and the marker
\* as they were.
C28_RolloverFrame ==
  [][ IsCheck(lastOp')
        => /\ DOMAIN habits' = DOMAIN habits
           /\ \A i \in DOMAIN habits :
                habits'[i].id = habits[i].id /\ habits'[i].label = habits[i].label
           /\ UNCHANGED <<entries, miniGoals, ifThenPlans, woop, points, analytics,
                          habitHistory, futureCostNotes, vision, activeTheme>>
           /\ \A slot \in DOMAIN store \ {"habits", "lastReset"} :
                store'[slot] = store[slot] ]_vars

\* A checkReset on a later day that cleared a completed habit on an engine
\* with a log, a completed mini-goal, a plan, points, a history and a note.
C28_Witness ==
  /\ lastOp.op = "checkReset"
  /\ lastOp.ok
  /\ lastOp.n > 0
  /\ NumCompleted(habits) = 0
  /\ Len(entries) > 0
  /\ NumCompleted(miniGoals) > 0
  /\ Len(ifThenPlans) > 0
  /\ points > 0
  /\ analytics.habitsCompleted > 0
  /\ woop # DefaultWoop
  /\ DOMAIN habitHistory # {}
  /\ DOMAIN futureCostNotes # {}

\* C29: a timer completion happens at the end of a countdown and only then;
\* it adds exactly 1 to points and to timerSessions, leaves the other
\* counters, and prepends exactly one entry stamped with the current time;
\* no other step changes points or timerSessions, so the two are equal in
\* every state, and each point stands for one whole countdown.
C29_TimerCreditAtomic ==
  /\ [](points = analytics.timerSessions)
  /\ [](points * TIMER_DURATION <= now \div 1000)
  /\ [][ IF lastOp'.op = "handleTimerComplete"
         THEN /\ timeLeft = 0
              /\ timeLeft' = TIMER_DURATION
              /\ ~isActive'
              /\ points' = points + 1
              /\ analytics' = [ analytics EXCEPT !.timerSessions = @ + 1 ]
              /\ entries' = <<[id |-> NumToString(now'), text |-> BURST_TEXT,
                               timestamp |-> now']>> \o entries
         ELSE /\ points' = points
              /\ analytics'.timerSessions = analytics.timerSessions ]_vars

\* The second completion, after countdowns cut short by a reset or a reload:
\* two points, two sessions, and two entries, the first stamped at its end.
C29_Witness ==
  /\ lastOp.op = "handleTimerComplete"
  /\ points = 2
  /\ analytics.timerSessions = 2
  /\ Wasted = MaxWaste
  /\ Len(entries) = 2
  /\ entries[1].timestamp = now
  /\ entries[2].timestamp < now - TIMER_DURATION * 1000
  /\ now = (2 * TIMER_DURATION + MaxWaste) * 1000
  /\ store.points = Some(<<"2">>)

\* C30 (as claimed): the active theme is the color of a catalog theme whose
\* unlockPoints the current points reach.
C30_ActiveThemeUnlocked ==
  \E k \in DOMAIN THEMES :
    /\ THEMES[k].color = activeTheme
    /\ THEMES[k].unlockPoints <= points

=============================================================================
